---- MODULE Spec2Model ----
(***************************************************************************)
(* HttpClient (src/src/http.client.ts): request dispatch with a retry     *)
(* loop, a per-attempt abort timer, auth-token injection and request and   *)
(* response interceptor chains over fetch.                                 *)
(*                                                                         *)
(* JavaScript runs each continuation to completion, so every action below  *)
(* is one synchronous stretch of a method: from its entry, or from the     *)
(* settlement of the promise it awaits, up to its next await, return or    *)
(* throw.  The transport (fetch), the body decoders (json, blob) and the   *)
(* timers are the environment: they settle nondeterministically.           *)
(***************************************************************************)
EXTENDS Integers, Sequences, FiniteSets, TLC

\* ------------------------------------------------------------- bounds
MaxRetries == 2        \* constructor argument `retries` ranges over 0..MaxRetries

\* ------------------------------------------------------------- values
Null == "<null>"             \* JavaScript null
Undefined == "<undefined>"   \* JavaScript undefined / absent property
NoSignal == 0 - 1            \* options.signal before the first assignment

CallIds == {1, 2}            \* the calls the model follows
Solo == {1}                  \* the call followed when one call runs alone
Clients == {1, 2}            \* HttpClient instances (`this`)

baseURL == "http://h"
Endpoint == "/a"
\* where the transport may end up after following a redirect (Response.url)
RedirectedURL == "http://h/b"

\* tokens passed to setAuthToken: the empty string is a legal string argument
Tokens == {"", "tok"}

\* JavaScript truthiness of a string-or-null value (if (x), x ? a : b, x || y)
Truthy(v) == v # Null /\ v # Undefined /\ v # ""

\* ------------------------------------------------------------- headers
\* A headers object is a function from the names it has to their values.
NoHeaders == [h \in {} |-> ""]

\* { ...a, ...b }: later spread wins on conflict
Spread(a, b) ==
    [h \in DOMAIN a \cup DOMAIN b |-> IF h \in DOMAIN b THEN b[h] ELSE a[h]]

\* headers[name] = value
SetHeader(hs, name, value) ==
    [h \in DOMAIN hs \cup {name} |-> IF h = name THEN value ELSE hs[h]]

\* delete headers[name]
DeleteHeader(hs, name) == [h \in DOMAIN hs \ {name} |-> hs[h]]

\* headers[name], undefined when absent
GetHeader(hs, name) == IF name \in DOMAIN hs THEN hs[name] ELSE Undefined

\* the per-call `config` arguments a caller passes
CallConfigs ==
    { [headers |-> NoHeaders, credentials |-> Undefined],
      [headers |-> [h \in {"Content-Type", "Authorization", "X-Id"} |->
                        CASE h = "Content-Type" -> "text/plain"
                          [] h = "Authorization" -> "Basic u"
                          [] OTHER -> "7"],
       credentials |-> "include"] }

\* ------------------------------------------------------------- interceptors
\* Registered request interceptors, by name.  "trace" appends to a header,
\* "reset" overwrites the same header and drops Authorization: the two do
\* not commute.
RequestInterceptorIds == {"trace", "reset"}

CallRequestInterceptor(id, config) ==
    IF id = "trace"
    THEN [config EXCEPT !.headers =
             SetHeader(@, "X-Trace",
                       (IF "X-Trace" \in DOMAIN @ THEN @["X-Trace"] ELSE "") \o "t")]
    ELSE [config EXCEPT !.headers =
             SetHeader(DeleteHeader(@, "Authorization"), "X-Trace", "r")]

\* Registered response interceptors, by name.  "mask" turns a 404 into a 200,
\* "fail" turns a 200 into a 503: the two do not commute on a 404.
ResponseInterceptorIds == {"mask", "fail"}

CallResponseInterceptor(id, response) ==
    IF id = "mask"
    THEN IF response.status = 404
         THEN [response EXCEPT !.status = 200, !.statusText = "OK"]
         ELSE response
    ELSE IF response.status = 200
         THEN [response EXCEPT !.status = 503, !.statusText = "Unavailable"]
         ELSE response

\* ------------------------------------------------------------- transport values
\* What fetch may resolve with for a request to `url`.  Response.url is the
\* final URL: RedirectedURL when the transport followed a redirect.
StatusText(status) ==
    CASE status = 200 -> "OK"
      [] status = 404 -> "Not Found"
      [] OTHER -> "Server Error"

ValidJsonBody == "{\"k\":1}"
ResponseHeaders == [h \in {"Content-Type"} |-> "application/json"]

Response(status, url, body) ==
    [status |-> status, statusText |-> StatusText(status), url |-> url, body |-> body,
     headers |-> ResponseHeaders]

TransportResponses(url) ==
    { Response(200, url, ValidJsonBody), Response(200, url, "<html>"),
      Response(404, url, "<html>"), Response(404, RedirectedURL, ValidJsonBody),
      Response(500, url, "<html>") }

NoResponse ==
    [status |-> 0, statusText |-> "", url |-> "", body |-> "", headers |-> NoHeaders]

\* Response.ok: status in the range 200-299
Ok(response) == response.status >= 200 /\ response.status <= 299

\* JSON.parse inside Response.json(): a value for JSON text, a throw otherwise
IsJson(body) == body = ValidJsonBody
JsonParse(body) == IF body = ValidJsonBody THEN "Object(k=1)" ELSE Undefined

\* JSON.stringify of a string value
JSONstringify(data) == "\"" \o data \o "\""

\* new FormData() with formData.append('file', file)
FormData(file) == "FormData(file=" \o file \o ")"

\* ------------------------------------------------------------- errors
\* `attempt` is the identity of the error object: the attempt that created it.
NoError == [kind |-> "none", status |-> 0, statusText |-> "", url |-> "", attempt |-> NoSignal]

\* the transport's own errors: fetch rejects with a TypeError on network
\* failure and with an AbortError when its signal is aborted
TransportError(kind, attempt) ==
    [kind |-> kind, status |-> 0, statusText |-> "", url |-> "", attempt |-> attempt]

\* Response.json() on a body that is not JSON
DecodeError(attempt) ==
    [kind |-> "SyntaxError", status |-> 0, statusText |-> "", url |-> "", attempt |-> attempt]

\* new HttpError(response.status, response.statusText, response.url)
handleError(response, attempt) ==
    [kind |-> "HttpError", status |-> response.status,
     statusText |-> response.statusText, url |-> response.url, attempt |-> attempt]

\* ------------------------------------------------------------- results
NoResult ==
    [type |-> "pending", data |-> Undefined, status |-> 0, headers |-> NoHeaders,
     error |-> NoError, attempt |-> NoSignal]

\* wraps the body text without decoding it
handleResponseUndecoded(response, attempt) ==
    [type |-> "response", data |-> response.body, status |-> response.status,
     headers |-> response.headers, error |-> NoError, attempt |-> attempt]

\* new HttpResponse(data, response.status, response.headers)
handleResponse(response, attempt) ==
    [type |-> "response", data |-> JsonParse(response.body), status |-> response.status,
     headers |-> response.headers, error |-> NoError, attempt |-> attempt]

\* download's `return await response.blob()`: the body as it came
BlobResult(response, attempt) ==
    [type |-> "blob", data |-> response.body, status |-> 0, headers |-> NoHeaders,
     error |-> NoError, attempt |-> attempt]

\* request falling off the end of its for loop
ReturnUndefined == [NoResult EXCEPT !.type = "undefined"]

\* throw new Error(...) in place of the caught error
RaisedWrapped(error) ==
    [NoResult EXCEPT !.type = "error", !.attempt = error.attempt,
                     !.error = [NoError EXCEPT !.kind = "Error", !.attempt = error.attempt]]

\* `throw error` out of the method
Raised(error) == [NoResult EXCEPT !.type = "error", !.error = error, !.attempt = error.attempt]

\* ------------------------------------------------------------- state
VARIABLES
    retries,                \* constructor argument (line 15)
    authToken,              \* line 8
    requestInterceptors,    \* line 10
    responseInterceptors,   \* line 11
    loggingEnabled,         \* line 12, per client instance
    responseLoggingEnabled, \* line 13, per client instance
    calls                   \* one record per call of request/upload/download

vars == <<retries, authToken, requestInterceptors, responseInterceptors,
          loggingEnabled, responseLoggingEnabled, calls>>

\* A call's frame: its locals, what is armed for it, and what it has done.
\*   pc          idle | fetching (await fetch) | decoding (await json/blob) | done
\*   options     the descriptor: after the interceptors, with the current signal
\*   attempt     the loop variable; controller and timer k belong to attempt k
\*   timers      the timeouts set and neither cleared nor fired
\*   aborted     the controllers whose abort() has run
\* observations of the run, not read by the program:
\*   initial, token, chain   the descriptor before the interceptors, and the
\*                           token and request interceptors at invocation
\*   dispatches, failures    fetch calls made; attempts that threw
\*   raw, response, rchain   last response as received, after the response
\*                           interceptors, and the interceptors it went through
\*   thrown                  the error the last failed attempt threw
\*   staleFire               a timer fired after its attempt was over
\*   config, rchain0         the caller's config argument; the response
\*                           interceptors registered at invocation
\*   console                 the lines the call wrote to the console
\* client is the instance the method is called on.
NoConfig == [headers |-> NoHeaders, credentials |-> Undefined]

IdleCall ==
    [pc |-> "idle", client |-> 1, verb |-> "", url |-> "",
     config |-> NoConfig, rchain0 |-> <<>>, console |-> <<>>,
     options |-> [method |-> "", headers |-> NoHeaders, body |-> Undefined,
                  credentials |-> "", signal |-> NoSignal],
     initial |-> [method |-> "", headers |-> NoHeaders, body |-> Undefined,
                  credentials |-> "", signal |-> NoSignal],
     token |-> Null, chain |-> <<>>,
     attempt |-> 0, dispatches |-> 0, failures |-> 0,
     timers |-> {}, aborted |-> {},
     raw |-> NoResponse, response |-> NoResponse, rchain |-> <<>>,
     thrown |-> NoError, result |-> NoResult,
     staleFire |-> FALSE]

Init ==
    /\ retries \in 0..MaxRetries
    /\ authToken = Null
    /\ requestInterceptors = <<>>
    /\ responseInterceptors = <<>>
    /\ loggingEnabled = [client \in Clients |-> FALSE]
    /\ responseLoggingEnabled = [client \in Clients |-> FALSE]
    /\ calls = [c \in CallIds |-> IdleCall]

\* ------------------------------------------------------------- configuration
setAuthToken(token) ==
    /\ authToken' = token
    /\ UNCHANGED <<retries, requestInterceptors, responseInterceptors,
                   loggingEnabled, responseLoggingEnabled, calls>>

addRequestInterceptor(interceptor) ==
    /\ \A i \in 1..Len(requestInterceptors) : requestInterceptors[i] # interceptor
    /\ requestInterceptors' = Append(requestInterceptors, interceptor)
    /\ UNCHANGED <<retries, authToken, responseInterceptors,
                   loggingEnabled, responseLoggingEnabled, calls>>

addResponseInterceptor(interceptor) ==
    /\ \A i \in 1..Len(responseInterceptors) : responseInterceptors[i] # interceptor
    /\ responseInterceptors' = Append(responseInterceptors, interceptor)
    /\ UNCHANGED <<retries, authToken, requestInterceptors,
                   loggingEnabled, responseLoggingEnabled, calls>>

enableLogging(client) ==
    /\ loggingEnabled' = [loggingEnabled EXCEPT ![client] = TRUE]
    /\ UNCHANGED <<retries, authToken, requestInterceptors, responseInterceptors,
                   responseLoggingEnabled, calls>>

enableResponseLogging(client) ==
    /\ responseLoggingEnabled' = [responseLoggingEnabled EXCEPT ![client] = TRUE]
    /\ UNCHANGED <<retries, authToken, requestInterceptors, responseInterceptors,
                   loggingEnabled, calls>>

\* Array.prototype.reduce((acc, interceptor) => interceptor(acc), config)
RECURSIVE ReduceRequest(_, _)
ReduceRequest(interceptors, acc) ==
    IF interceptors = <<>> THEN acc
    ELSE ReduceRequest(Tail(interceptors), CallRequestInterceptor(Head(interceptors), acc))

RECURSIVE ReduceResponse(_, _)
ReduceResponse(interceptors, acc) ==
    IF interceptors = <<>> THEN acc
    ELSE ReduceResponse(Tail(interceptors), CallResponseInterceptor(Head(interceptors), acc))

\* reduceRight in place of reduce
RECURSIVE ReduceRequestRight(_, _)
ReduceRequestRight(interceptors, acc) ==
    IF interceptors = <<>> THEN acc
    ELSE CallRequestInterceptor(Head(interceptors),
                                ReduceRequestRight(Tail(interceptors), acc))

RECURSIVE ReduceResponseRight(_, _)
ReduceResponseRight(interceptors, acc) ==
    IF interceptors = <<>> THEN acc
    ELSE CallResponseInterceptor(Head(interceptors),
                                 ReduceResponseRight(Tail(interceptors), acc))

applyRequestInterceptorsReversed(config) == ReduceRequestRight(requestInterceptors, config)

applyResponseInterceptorsReversed(response) ==
    ReduceResponseRight(responseInterceptors, response)

applyRequestInterceptors(config) == ReduceRequest(requestInterceptors, config)

applyResponseInterceptors(response) == ReduceResponse(responseInterceptors, response)

\* ------------------------------------------------------------- descriptors
\* the token first, the caller's headers spread over it
requestOptionsCallerWins(method, data, config) ==
    LET defaults == [h \in {"Content-Type"} |-> "application/json"]
        withToken == IF Truthy(authToken)
                     THEN SetHeader(defaults, "Authorization", "Bearer " \o authToken)
                     ELSE defaults
    IN [method |-> method, headers |-> Spread(withToken, config.headers),
        body |-> IF Truthy(data) THEN JSONstringify(data) ELSE Null,
        credentials |-> IF Truthy(config.credentials) THEN config.credentials
                        ELSE "same-origin",
        signal |-> NoSignal]

\* the default spread over the caller's headers: { ...config.headers,
\* 'Content-Type': 'application/json' }
requestOptionsDefaultWins(method, data, config) ==
    LET merged == Spread(config.headers, [h \in {"Content-Type"} |-> "application/json"])
        headers == IF Truthy(authToken)
                   THEN SetHeader(merged, "Authorization", "Bearer " \o authToken)
                   ELSE merged
    IN [method |-> method, headers |-> headers,
        body |-> IF Truthy(data) THEN JSONstringify(data) ELSE Null,
        credentials |-> IF Truthy(config.credentials) THEN config.credentials
                        ELSE "same-origin",
        signal |-> NoSignal]

\* request, lines 70-84: { 'Content-Type': ..., ...config.headers }, then the
\* token, then the options object
requestOptions(method, data, config) ==
    LET merged == Spread([h \in {"Content-Type"} |-> "application/json"], config.headers)
        headers == IF Truthy(authToken)
                   THEN SetHeader(merged, "Authorization", "Bearer " \o authToken)
                   ELSE merged
    IN [method |-> method, headers |-> headers,
        body |-> IF Truthy(data) THEN JSONstringify(data) ELSE Null,
        credentials |-> IF Truthy(config.credentials) THEN config.credentials
                        ELSE "same-origin",
        signal |-> NoSignal]

\* upload, lines 116-132
uploadOptions(file, config) ==
    LET merged == Spread(NoHeaders, config.headers)
        headers == IF Truthy(authToken)
                   THEN SetHeader(merged, "Authorization", "Bearer " \o authToken)
                   ELSE merged
    IN [method |-> "POST", headers |-> headers, body |-> FormData(file),
        credentials |-> IF Truthy(config.credentials) THEN config.credentials
                        ELSE "same-origin",
        signal |-> NoSignal]

\* download, lines 158-170: no body property
downloadOptions(config) ==
    LET merged == Spread(NoHeaders, config.headers)
        headers == IF Truthy(authToken)
                   THEN SetHeader(merged, "Authorization", "Bearer " \o authToken)
                   ELSE merged
    IN [method |-> "GET", headers |-> headers, body |-> Undefined,
        credentials |-> IF Truthy(config.credentials) THEN config.credentials
                        ELSE "same-origin",
        signal |-> NoSignal]

\* ------------------------------------------------------------- the console
\* a line written to the console; status is 0 where the line has none
ConsoleLine(level, kind, status) ==
    [level |-> level, kind |-> kind, status |-> status]

Write(frame, line) == [frame EXCEPT !.console = Append(@, line)]

\* the Authorization header is blanked in the descriptor itself before it
\* is logged, so the request goes out without it
logRequestRedacting(frame) ==
    IF loggingEnabled[frame.client]
    THEN [Write(frame, ConsoleLine("log", "request", 0))
             EXCEPT !.options.headers = DeleteHeader(@, "Authorization")]
    ELSE frame

\* logRequest, lines 53-57
logRequest(frame) ==
    IF loggingEnabled[frame.client]
    THEN Write(frame, ConsoleLine("log", "request", 0))
    ELSE frame

\* the first statement of applyResponseInterceptors, lines 47-49: the
\* response logged is the one fetch resolved with
logResponse(frame, response) ==
    IF responseLoggingEnabled[frame.client]
    THEN Write(frame, ConsoleLine("log", "response", response.status))
    ELSE frame

\* the retry warning is written only under request logging
warnRetryingWhenLogging(frame) ==
    IF loggingEnabled[frame.client]
    THEN Write(frame, ConsoleLine("warn", "retry", 0))
    ELSE frame

\* console.warn(`Retrying request to ...`), line 105
warnRetrying(frame) == Write(frame, ConsoleLine("warn", "retry", 0))

\* console.error(`... failed:`, error), lines 107, 151, 189
errorFailed(frame) == Write(frame, ConsoleLine("error", "failure", 0))

\* ------------------------------------------------------------- one attempt
\* the timeout is left set
clearTimeoutMissing(frame, timeoutId) == frame

\* clearTimeout(timeoutId)
clearTimeout(frame, timeoutId) == [frame EXCEPT !.timers = @ \ {timeoutId}]

\* the interceptors and the request log are inside the loop: they run again
\* on the descriptor of the attempt before
startAttemptRebuilding(frame) ==
    LET rebuilt == IF frame.attempt = 0 THEN frame
                   ELSE logRequest([frame EXCEPT
                            !.options = applyRequestInterceptors(frame.options)])
    IN [rebuilt EXCEPT !.options.signal = frame.attempt,
                       !.timers = @ \cup {frame.attempt},
                       !.pc = "fetching",
                       !.dispatches = @ + 1,
                       !.raw = NoResponse, !.response = NoResponse, !.rchain = <<>>]

\* new AbortController(); setTimeout(() => controller.abort(), timeout);
\* options.signal = controller.signal; fetch(url, options): up to the await
\* (response is block-scoped: a new iteration starts without one)
startAttempt(frame) ==
    [frame EXCEPT !.options.signal = frame.attempt,
                  !.timers = @ \cup {frame.attempt},
                  !.pc = "fetching",
                  !.dispatches = @ + 1,
                  !.raw = NoResponse, !.response = NoResponse, !.rchain = <<>>]

\* return or throw: the frame's locals are gone; what stays is what the caller
\* gets, the timers still set, and the observations of the last attempt
Finish(frame, result) ==
    [IdleCall EXCEPT !.pc = "done", !.client = frame.client,
                     !.verb = frame.verb, !.url = frame.url,
                     !.console = frame.console,
                     !.attempt = frame.attempt,
                     !.dispatches = frame.dispatches, !.failures = frame.failures,
                     !.timers = frame.timers, !.aborted = frame.aborted,
                     !.raw = frame.raw, !.response = frame.response,
                     !.rchain = frame.rchain, !.thrown = frame.thrown,
                     !.staleFire = frame.staleFire,
                     !.result = result]

\* the for statement's condition, line 89
forCondition(attempt) == attempt < retries

\* off by one: compares with retries instead of retries - 1
attemptsRemainOffByOne(attempt) == attempt < retries

\* the catch clause's condition, line 104
attemptsRemain(attempt) == attempt < retries - 1

\* the head of the for loop: another attempt, or fall off the end of request
forLoop(frame) ==
    IF forCondition(frame.attempt)
    THEN startAttempt(frame)
    ELSE Finish(frame, ReturnUndefined)

\* gives up at once on a 4xx status, retries everything else
requestCatchNoRetryOn4xx(frame, error) ==
    LET cleared == clearTimeout(frame, frame.attempt)
    IN IF attemptsRemain(frame.attempt)
          /\ ~(error.kind = "HttpError" /\ error.status >= 400 /\ error.status <= 499)
       THEN forLoop([warnRetrying(cleared) EXCEPT !.attempt = @ + 1])
       ELSE Finish(errorFailed(cleared), Raised(error))

\* the timeout is cleared only when the call gives up: a retry starts with
\* the timer of the failed attempt still set
requestCatchLeavingTimer(frame, error) ==
    IF attemptsRemain(frame.attempt)
    THEN forLoop([warnRetrying(frame) EXCEPT !.attempt = @ + 1])
    ELSE Finish(errorFailed(clearTimeout(frame, frame.attempt)), Raised(error))

\* request's catch clause, lines 102-110, and attempt++
requestCatch(frame, error) ==
    LET cleared == clearTimeout(frame, frame.attempt)
    IN IF attemptsRemain(frame.attempt)
       THEN forLoop([warnRetrying(cleared) EXCEPT !.attempt = @ + 1])
       ELSE Finish(errorFailed(cleared), Raised(error))

\* the retrying catch clause of request pasted into upload and download
transferCatchRetrying(frame, error) == requestCatch(frame, error)

\* the catch clause of upload (lines 149-153) and of download (lines 187-191)
transferCatch(frame, error) ==
    LET cleared == clearTimeout(frame, frame.attempt)
    IN Finish(errorFailed(cleared), Raised(error))

\* an error thrown inside the try block reaches the method's catch clause
Throw(frame, error) ==
    LET seen == [frame EXCEPT !.thrown = error, !.failures = @ + 1]
    IN IF frame.verb = "request" THEN requestCatch(seen, error)
       ELSE transferCatch(seen, error)

\* the response interceptors are copied when the call is invoked and the
\* copy is what runs on the responses of the call
fetchResolvedWithChainAtCall(frame, raw) ==
    LET cleared == clearTimeout(frame, frame.attempt)
        logged == logResponse(cleared, raw)
        response == ReduceResponse(frame.rchain0, raw)
        seen == [logged EXCEPT !.raw = raw, !.response = response,
                               !.rchain = frame.rchain0]
    IN IF ~Ok(response)
       THEN Throw(seen, handleError(response, frame.attempt))
       ELSE [seen EXCEPT !.pc = "decoding"]

\* the status test comes first: if (!response.ok) on what fetch resolved
\* with, the interceptors run on a success only
fetchResolvedClassifyingRaw(frame, raw) ==
    LET cleared == clearTimeout(frame, frame.attempt)
        logged == logResponse(cleared, raw)
        response == IF Ok(raw) THEN applyResponseInterceptors(raw) ELSE raw
        seen == [logged EXCEPT !.raw = raw, !.response = response,
                               !.rchain = responseInterceptors]
    IN IF ~Ok(response)
       THEN Throw(seen, handleError(response, frame.attempt))
       ELSE [seen EXCEPT !.pc = "decoding"]

\* the try block from the resolution of fetch to the next await:
\* lines 96-101, 143-148, 181-186
fetchResolved(frame, raw) ==
    LET cleared == clearTimeout(frame, frame.attempt)
        logged == logResponse(cleared, raw)
        response == applyResponseInterceptors(raw)
        seen == [logged EXCEPT !.raw = raw, !.response = response,
                               !.rchain = responseInterceptors]
    IN IF ~Ok(response)
       THEN Throw(seen, handleError(response, frame.attempt))
       ELSE [seen EXCEPT !.pc = "decoding"]

\* ------------------------------------------------------------- the methods
\* request up to its first await, lines 69-93
requestEntered(idle, method, endpoint, data, config) ==
    LET initial == requestOptions(method, data, config)
        frame == [idle EXCEPT !.verb = "request",
                              !.url = baseURL \o endpoint,
                              !.initial = initial,
                              !.options = applyRequestInterceptors(initial),
                              !.token = authToken,
                              !.chain = requestInterceptors,
                              !.config = config,
                              !.rchain0 = responseInterceptors,
                              !.attempt = 0]
    IN forLoop(logRequest(frame))

request(c, method, endpoint, data, config) ==
    /\ calls[c].pc = "idle"
    /\ calls' = [calls EXCEPT ![c] = requestEntered(calls[c], method, endpoint, data, config)]
    /\ UNCHANGED <<retries, authToken, requestInterceptors, responseInterceptors,
                   loggingEnabled, responseLoggingEnabled>>

\* upload up to its first await, lines 115-142
uploadEntered(idle, endpoint, file, config) ==
    LET initial == uploadOptions(file, config)
        frame == [idle EXCEPT !.verb = "upload",
                              !.url = baseURL \o endpoint,
                              !.initial = initial,
                              !.options = applyRequestInterceptors(initial),
                              !.token = authToken,
                              !.chain = requestInterceptors,
                              !.config = config,
                              !.rchain0 = responseInterceptors,
                              !.attempt = 0]
    IN startAttempt(logRequest(frame))

upload(c, endpoint, file, config) ==
    /\ calls[c].pc = "idle"
    /\ calls' = [calls EXCEPT ![c] = uploadEntered(calls[c], endpoint, file, config)]
    /\ UNCHANGED <<retries, authToken, requestInterceptors, responseInterceptors,
                   loggingEnabled, responseLoggingEnabled>>

\* download up to its first await, lines 157-180
downloadEntered(idle, endpoint, config) ==
    LET initial == downloadOptions(config)
        frame == [idle EXCEPT !.verb = "download",
                              !.url = baseURL \o endpoint,
                              !.initial = initial,
                              !.options = applyRequestInterceptors(initial),
                              !.token = authToken,
                              !.chain = requestInterceptors,
                              !.config = config,
                              !.rchain0 = responseInterceptors,
                              !.attempt = 0]
    IN startAttempt(logRequest(frame))

download(c, endpoint, config) ==
    /\ calls[c].pc = "idle"
    /\ calls' = [calls EXCEPT ![c] = downloadEntered(calls[c], endpoint, config)]
    /\ UNCHANGED <<retries, authToken, requestInterceptors, responseInterceptors,
                   loggingEnabled, responseLoggingEnabled>>

get(c, endpoint, config) == request(c, "GET", endpoint, Null, config)

post(c, endpoint, data, config) == request(c, "POST", endpoint, data, config)

put(c, endpoint, data, config) == request(c, "PUT", endpoint, data, config)

delete(c, endpoint, config) == request(c, "DELETE", endpoint, Null, config)

\* ------------------------------------------------------------- environment
\* fetch resolves with a response
FetchResolve(c, raw) ==
    /\ calls[c].pc = "fetching"
    /\ calls[c].options.signal \notin calls[c].aborted
    /\ raw \in TransportResponses(calls[c].url)
    /\ calls' = [calls EXCEPT ![c] = fetchResolved(calls[c], raw)]
    /\ UNCHANGED <<retries, authToken, requestInterceptors, responseInterceptors,
                   loggingEnabled, responseLoggingEnabled>>

\* fetch rejects: network failure
FetchReject(c) ==
    /\ calls[c].pc = "fetching"
    /\ calls[c].options.signal \notin calls[c].aborted
    /\ calls' = [calls EXCEPT ![c] =
                    Throw(calls[c], TransportError("TypeError", calls[c].attempt))]
    /\ UNCHANGED <<retries, authToken, requestInterceptors, responseInterceptors,
                   loggingEnabled, responseLoggingEnabled>>

\* the callback runs and aborts nothing
timerFiredWithoutAbort(frame, k) == [frame EXCEPT !.timers = @ \ {k}]

\* () => controller.abort(), the callback set at line 91 / 138 / 176
timerFired(frame, k) ==
    [frame EXCEPT !.timers = @ \ {k},
                  !.aborted = @ \cup {k},
                  !.staleFire = @ \/ ~(frame.pc = "fetching" /\ frame.attempt = k)]

\* the controller is kept in a field of the instance instead of a local: the
\* callback aborts the attempt of every call that is waiting for the transport
TimerFireSharedController(c, k) ==
    /\ k \in calls[c].timers
    /\ calls' = [d \in CallIds |->
                    IF d = c THEN timerFired(calls[c], k)
                    ELSE IF calls[d].pc = "fetching"
                    THEN [calls[d] EXCEPT !.aborted = @ \cup {calls[d].attempt}]
                    ELSE calls[d]]
    /\ UNCHANGED <<retries, authToken, requestInterceptors, responseInterceptors,
                   loggingEnabled, responseLoggingEnabled>>

\* a timeout set at line 91 / 138 / 176 runs
TimerFire(c, k) ==
    /\ k \in calls[c].timers
    /\ calls' = [calls EXCEPT ![c] = timerFired(calls[c], k)]
    /\ UNCHANGED <<retries, authToken, requestInterceptors, responseInterceptors,
                   loggingEnabled, responseLoggingEnabled>>

\* fetch rejects: its signal was aborted
FetchAbort(c) ==
    /\ calls[c].pc = "fetching"
    /\ calls[c].options.signal \in calls[c].aborted
    /\ calls' = [calls EXCEPT ![c] =
                    Throw(calls[c], TransportError("AbortError", calls[c].attempt))]
    /\ UNCHANGED <<retries, authToken, requestInterceptors, responseInterceptors,
                   loggingEnabled, responseLoggingEnabled>>

\* response.json() inside handleResponse settles (request, upload)
jsonSettled(frame) ==
    IF frame.options.signal \in frame.aborted
    THEN Throw(frame, TransportError("AbortError", frame.attempt))
    ELSE IF IsJson(frame.response.body)
    THEN Finish(frame, handleResponse(frame.response, frame.attempt))
    ELSE Throw(frame, DecodeError(frame.attempt))

JsonSettle(c) ==
    /\ calls[c].pc = "decoding"
    /\ calls[c].verb # "download"
    /\ calls' = [calls EXCEPT ![c] = jsonSettled(calls[c])]
    /\ UNCHANGED <<retries, authToken, requestInterceptors, responseInterceptors,
                   loggingEnabled, responseLoggingEnabled>>

\* response.blob() settles (download)
blobSettled(frame) ==
    IF frame.options.signal \in frame.aborted
    THEN Throw(frame, TransportError("AbortError", frame.attempt))
    ELSE Finish(frame, BlobResult(frame.response, frame.attempt))

BlobSettle(c) ==
    /\ calls[c].pc = "decoding"
    /\ calls[c].verb = "download"
    /\ calls' = [calls EXCEPT ![c] = blobSettled(calls[c])]
    /\ UNCHANGED <<retries, authToken, requestInterceptors, responseInterceptors,
                   loggingEnabled, responseLoggingEnabled>>

\* ------------------------------------------------------------- specification
Payloads == {"x"}
Files == {"f.bin"}

Next ==
    \/ \E token \in Tokens : setAuthToken(token)
    \/ \E id \in RequestInterceptorIds : addRequestInterceptor(id)
    \/ \E id \in ResponseInterceptorIds : addResponseInterceptor(id)
    \/ \E c \in Solo, config \in CallConfigs : get(c, Endpoint, config)
    \/ \E c \in Solo, data \in Payloads, config \in CallConfigs :
          post(c, Endpoint, data, config)
    \/ \E c \in Solo, data \in Payloads, config \in CallConfigs :
          put(c, Endpoint, data, config)
    \/ \E c \in Solo, config \in CallConfigs : delete(c, Endpoint, config)
    \/ \E c \in Solo, file \in Files, config \in CallConfigs :
          upload(c, Endpoint, file, config)
    \/ \E c \in Solo, config \in CallConfigs : download(c, Endpoint, config)
    \/ \E c \in Solo : \E raw \in TransportResponses(calls[c].url) : FetchResolve(c, raw)
    \/ \E c \in Solo : FetchReject(c)
    \/ \E c \in Solo : \E k \in calls[c].timers : TimerFire(c, k)
    \/ \E c \in Solo : FetchAbort(c)
    \/ \E c \in Solo : JsonSettle(c)
    \/ \E c \in Solo : BlobSettle(c)

Spec == Init /\ [][Next]_vars

\* ------------------------------------------- the same run, logged differently
\* Two client instances configured alike except for their logging flags:
\* call c is made on client c, both get the same call with the same
\* arguments, and the transport and the timers treat both alike. Client 1
\* may turn either kind of logging on at any moment, client 2 never logs:
\* two runs that both equal the silent run equal each other.
Logged == {1}

InitLog ==
    /\ retries \in 0..MaxRetries
    /\ authToken = Null
    /\ requestInterceptors = <<>>
    /\ responseInterceptors = <<>>
    /\ loggingEnabled = [client \in Clients |-> FALSE]
    /\ responseLoggingEnabled = [client \in Clients |-> FALSE]
    /\ calls = [c \in CallIds |-> [IdleCall EXCEPT !.client = c]]

\* every call that can take the step takes it: `after` gives the frame of
\* each call of `able` after the step
Both(able, after) ==
    /\ able # {}
    /\ calls' = [c \in CallIds |-> IF c \in able THEN after[c] ELSE calls[c]]
    /\ UNCHANGED <<retries, authToken, requestInterceptors, responseInterceptors,
                   loggingEnabled, responseLoggingEnabled>>

Idle == {c \in CallIds : calls[c].pc = "idle"}

Fetching ==
    {c \in CallIds : /\ calls[c].pc = "fetching"
                     /\ calls[c].options.signal \notin calls[c].aborted}

Aborting ==
    {c \in CallIds : /\ calls[c].pc = "fetching"
                     /\ calls[c].options.signal \in calls[c].aborted}

Decoding == {c \in CallIds : calls[c].pc = "decoding" /\ calls[c].verb # "download"}

Reading == {c \in CallIds : calls[c].pc = "decoding" /\ calls[c].verb = "download"}

BothRequest(method, data, config) ==
    Both(Idle, [c \in Idle |-> requestEntered(calls[c], method, Endpoint, data, config)])

BothUpload(file, config) ==
    Both(Idle, [c \in Idle |-> uploadEntered(calls[c], Endpoint, file, config)])

BothDownload(config) ==
    Both(Idle, [c \in Idle |-> downloadEntered(calls[c], Endpoint, config)])

BothFetchResolve(raw) ==
    Both(Fetching, [c \in Fetching |-> fetchResolved(calls[c], raw)])

BothFetchReject ==
    Both(Fetching,
         [c \in Fetching |-> Throw(calls[c], TransportError("TypeError", calls[c].attempt))])

BothTimerFire(k) ==
    LET armed == {c \in CallIds : k \in calls[c].timers}
    IN Both(armed, [c \in armed |-> timerFired(calls[c], k)])

BothFetchAbort ==
    Both(Aborting,
         [c \in Aborting |-> Throw(calls[c], TransportError("AbortError", calls[c].attempt))])

BothJsonSettle == Both(Decoding, [c \in Decoding |-> jsonSettled(calls[c])])

BothBlobSettle == Both(Reading, [c \in Reading |-> blobSettled(calls[c])])

NextLog ==
    \/ \E client \in Logged : enableLogging(client)
    \/ \E client \in Logged : enableResponseLogging(client)
    \/ \E id \in {"trace"} : addRequestInterceptor(id)
    \/ \E id \in ResponseInterceptorIds : addResponseInterceptor(id)
    \/ \E data \in Payloads, config \in CallConfigs :
          BothRequest("PATCH", data, config)
    \/ \E file \in Files, config \in CallConfigs : BothUpload(file, config)
    \/ \E config \in CallConfigs : BothDownload(config)
    \/ \E raw \in TransportResponses(baseURL \o Endpoint) : BothFetchResolve(raw)
    \/ BothFetchReject
    \/ \E k \in 0..MaxRetries : BothTimerFire(k)
    \/ BothFetchAbort
    \/ BothJsonSettle
    \/ BothBlobSettle

SpecLog == InitLog /\ [][NextLog]_vars

\* ------------------------------------------------------------- retry loop
RequestCalls == {c \in CallIds : calls[c].verb = "request"}

\* C1: a request call never dispatches more than `retries` attempts; it has
\* raised an error only if exactly `retries` attempts were dispatched and all
\* of them failed; and once `retries` >= 1 attempts have failed it has raised.
C1_ExhaustedAfterExactlyR ==
    \A c \in RequestCalls :
        LET f == calls[c]
        IN /\ f.dispatches <= retries
           /\ f.result.type = "error" =>
                  f.pc = "done" /\ f.dispatches = retries /\ f.failures = retries
           /\ (retries >= 1 /\ f.failures = retries) =>
                  f.pc = "done" /\ f.result.type = "error"

C1_Witness ==
    \E c \in RequestCalls :
        /\ retries >= 2
        /\ calls[c].result.type = "error"
        /\ calls[c].dispatches = retries
        /\ calls[c].failures = retries

\* C2: a request call that returned a Response wrapper made K - 1 failed
\* attempts and then the successful K-th, K <= retries; the wrapper holds the
\* decoded body, status and headers of the K-th attempt's response, and no
\* attempt was dispatched after it.
C2_SuccessOnAttemptK ==
    \A c \in RequestCalls :
        LET f == calls[c]
        IN f.result.type = "response" =>
              /\ f.pc = "done"
              /\ f.dispatches = f.failures + 1
              /\ f.dispatches <= retries
              /\ f.result.attempt = f.dispatches - 1
              /\ Ok(f.response) /\ IsJson(f.response.body)
              /\ f.result.data = JsonParse(f.response.body)
              /\ f.result.status = f.response.status
              /\ f.result.headers = f.response.headers
              /\ f.timers = {}

C2_Witness ==
    \E c \in RequestCalls :
        /\ calls[c].result.type = "response"
        /\ calls[c].failures >= 1
        /\ calls[c].dispatches = calls[c].failures + 1

\* C3 (as claimed): a finished request call has returned a Response wrapper or
\* raised an error, and has dispatched at least one attempt.
C3_FinishedWithResponseOrError ==
    \A c \in RequestCalls :
        calls[c].pc = "done" =>
            /\ calls[c].result.type \in {"response", "error"}
            /\ calls[c].dispatches >= 1

\* C4: whatever the kind of the error an attempt of a request call throws
\* (the transport's TypeError or AbortError, an HttpError of any status, a
\* decode error), the step that throws it dispatches the next attempt exactly
\* when attempt < retries - 1 and otherwise raises it to the caller.
C4_ErrorKindsTreatedAlike ==
    [][\A c \in CallIds :
          (calls[c].verb = "request" /\ calls'[c].failures = calls[c].failures + 1) =>
              IF calls[c].attempt < retries - 1
              THEN /\ calls'[c].pc = "fetching"
                   /\ calls'[c].attempt = calls[c].attempt + 1
                   /\ calls'[c].dispatches = calls[c].dispatches + 1
                   /\ calls'[c].result.type = "pending"
              ELSE /\ calls'[c].pc = "done"
                   /\ calls'[c].result.type = "error"
                   /\ calls'[c].dispatches = calls[c].dispatches]_vars

\* an HttpError with a 4xx status was retried
C4_Witness ==
    \E c \in RequestCalls :
        /\ calls[c].pc = "fetching"
        /\ calls[c].attempt >= 1
        /\ calls[c].thrown.kind = "HttpError"
        /\ calls[c].thrown.status = 404

TransferCalls == {c \in CallIds : calls[c].verb \in {"upload", "download"}}

\* C6: an upload or download call dispatches exactly one attempt, whatever
\* `retries` is; when that attempt fails the call has raised the error it
\* threw, with no second attempt.
C6_TransferSingleAttempt ==
    \A c \in TransferCalls :
        LET f == calls[c]
        IN /\ f.dispatches = 1
           /\ f.attempt = 0
           /\ f.failures <= 1
           /\ f.failures = 1 =>
                 /\ f.pc = "done"
                 /\ f.result.type = "error"
                 /\ f.result.error = f.thrown
                 /\ f.timers = {}

C6_Witness ==
    \E c \in TransferCalls :
        /\ retries >= 2
        /\ calls[c].failures = 1
        /\ calls[c].result.type = "error"
        /\ calls[c].dispatches = 1

\* ------------------------------------------------------------- auth token
Authorization(descriptor) == GetHeader(descriptor.headers, "Authorization")

InFlight == {c \in CallIds : calls[c].pc = "fetching"}

\* an interceptor that hands the Authorization header on as it got it
PreservesAuthorization(id) ==
    \A value \in {Undefined, "Bearer tok", "Basic u"} :
        LET probe == [method |-> "GET",
                      headers |-> IF value = Undefined THEN NoHeaders
                                  ELSE [h \in {"Authorization"} |-> value],
                      body |-> Null, credentials |-> "same-origin", signal |-> NoSignal]
        IN Authorization(CallRequestInterceptor(id, probe)) = value

\* C7 (as claimed): with a (non-empty) auth token set when the call was
\* invoked, the descriptor in the transport's hands carries
\* Authorization: Bearer <token>, whatever request interceptors are registered.
C7_EveryDispatchCarriesToken ==
    \A c \in InFlight :
        Truthy(calls[c].token) =>
            Authorization(calls[c].options) = "Bearer " \o calls[c].token

\* C7 (amended): with a non-empty auth token set when the call was invoked,
\* the descriptor given to the request interceptors carries
\* Authorization: Bearer <token> on every verb, over any Authorization header
\* of the caller; the descriptor in the transport's hands carries it on every
\* attempt when every interceptor registered at invocation hands the header on
\* unchanged.
C7_TokenInjectedBeforeInterceptors ==
    \A c \in InFlight :
        LET f == calls[c]
        IN Truthy(f.token) =>
              /\ Authorization(f.initial) = "Bearer " \o f.token
              /\ (\A i \in 1..Len(f.chain) : PreservesAuthorization(f.chain[i])) =>
                    Authorization(f.options) = "Bearer " \o f.token

\* a retry, through a registered interceptor, of a call with a token
C7_Witness ==
    \E c \in InFlight :
        /\ Truthy(calls[c].token)
        /\ calls[c].attempt >= 1
        /\ Len(calls[c].chain) >= 1
        /\ \A i \in 1..Len(calls[c].chain) : PreservesAuthorization(calls[c].chain[i])
        /\ Authorization(calls[c].options) = "Bearer " \o calls[c].token

\* ------------------------------------------------------------- timers
\* C8: per call at most one timer is set, and only while its own attempt
\* awaits fetch: it is cleared on the success path and on the failure path
\* before the attempt is left, each attempt runs on its own controller, not
\* yet aborted when dispatched, and no timer fires once its attempt is over.
C8_TimerClearedWithItsAttempt ==
    \A c \in CallIds :
        LET f == calls[c]
        IN /\ Cardinality(f.timers) <= 1
           /\ f.timers # {} => (f.pc = "fetching" /\ f.timers = {f.attempt})
           /\ f.pc \in {"decoding", "done"} => f.timers = {}
           /\ f.pc = "fetching" =>
                 /\ f.options.signal = f.attempt
                 /\ (f.attempt \in f.timers) # (f.attempt \in f.aborted)
           /\ ~f.staleFire
           /\ \A k \in f.aborted : k <= f.attempt

\* attempt K timed out and was aborted; attempt K+1 runs on a fresh timer
C8_Witness ==
    \E c \in CallIds :
        /\ calls[c].pc = "fetching"
        /\ calls[c].attempt >= 1
        /\ calls[c].attempt - 1 \in calls[c].aborted
        /\ calls[c].timers = {calls[c].attempt}
        /\ calls[c].attempt \notin calls[c].aborted

\* ------------------------------------------------------------- interceptor chains
\* fn(...f1(d)...), from the last interceptor inward
RECURSIVE ComposeRequest(_, _)
ComposeRequest(chain, d) ==
    IF chain = <<>> THEN d
    ELSE CallRequestInterceptor(chain[Len(chain)],
                                ComposeRequest(SubSeq(chain, 1, Len(chain) - 1), d))

RECURSIVE ComposeResponse(_, _)
ComposeResponse(chain, r) ==
    IF chain = <<>> THEN r
    ELSE CallResponseInterceptor(chain[Len(chain)],
                                 ComposeResponse(SubSeq(chain, 1, Len(chain) - 1), r))

\* C9: on request, upload and download the descriptor in the transport's
\* hands is fn(...f1(d)...) for the interceptors [f1, ..., fn] registered at
\* invocation and the initial descriptor d (with the attempt's signal
\* attached); for [f, g] it is g(f(d)).
C9_RequestChainInOrder ==
    \A c \in InFlight :
        LET f == calls[c]
            sent == [f.options EXCEPT !.signal = NoSignal]
        IN /\ sent = ComposeRequest(f.chain, f.initial)
           /\ Len(f.chain) = 2 =>
                 sent = CallRequestInterceptor(f.chain[2],
                            CallRequestInterceptor(f.chain[1], f.initial))

\* two interceptors whose order shows in the descriptor
C9_Witness ==
    \E c \in InFlight :
        LET f == calls[c]
        IN /\ Len(f.chain) = 2
           /\ f.verb = "upload"
           /\ ComposeRequest(f.chain, f.initial)
                 # ComposeRequest(<<f.chain[2], f.chain[1]>>, f.initial)

\* C10: a received response r is classified and decoded as fn(...f1(r)...)
\* for the response interceptors [f1, ..., fn] registered when it arrived: a
\* non-success status of that value is what is thrown, a success status of it
\* is what goes on to decoding and into the wrapper.
C10_ResponseChainInOrder ==
    \A c \in CallIds :
        LET f == calls[c]
            r == ComposeResponse(f.rchain, f.raw)
        IN f.raw # NoResponse =>
              /\ f.response = r
              /\ Len(f.rchain) = 2 =>
                    r = CallResponseInterceptor(f.rchain[2],
                            CallResponseInterceptor(f.rchain[1], f.raw))
              /\ ~Ok(r) => f.thrown = handleError(r, f.attempt)
              /\ Ok(r) => f.pc \in {"decoding", "done"}
              /\ f.result.type = "response" =>
                    (f.result.status = r.status /\ f.result.data = JsonParse(r.body))

\* a 404 through [mask, fail] (503) or [fail, mask] (200): the order shows
C10_Witness ==
    \E c \in CallIds :
        LET f == calls[c]
        IN /\ f.raw # NoResponse
           /\ Len(f.rchain) = 2
           /\ f.response = ComposeResponse(f.rchain, f.raw)
           /\ f.response # ComposeResponse(<<f.rchain[2], f.rchain[1]>>, f.raw)

\* ------------------------------------------- calls in flight side by side
\* Two calls on the same client instance: each runs from await to await, and
\* between two awaits of one call the other may run, the transport may
\* settle either fetch, and either call's timer may fire.
NextConc ==
    \/ \E c \in CallIds, config \in CallConfigs : get(c, Endpoint, config)
    \/ \E c \in CallIds, data \in Payloads : post(c, Endpoint, data, NoConfig)
    \/ \E c \in CallIds, file \in Files : upload(c, Endpoint, file, NoConfig)
    \/ \E c \in CallIds : download(c, Endpoint, NoConfig)
    \/ \E c \in CallIds : \E raw \in TransportResponses(calls[c].url) :
          FetchResolve(c, raw)
    \/ \E c \in CallIds : FetchReject(c)
    \/ \E c \in CallIds : \E k \in calls[c].timers : TimerFire(c, k)
    \/ \E c \in CallIds : FetchAbort(c)
    \/ \E c \in CallIds : JsonSettle(c)
    \/ \E c \in CallIds : BlobSettle(c)

SpecConc == Init /\ [][NextConc]_vars

\* ------------------------------------------------- what the runtime owes
\* One call, with what the event loop and the transport guarantee: a timeout
\* that is set and not cleared runs its callback, fetch rejects once its
\* signal is aborted, and the reading of a response body comes to an end.
\* Nothing says that fetch settles by itself.
NextLive ==
    \/ \E c \in Solo, config \in CallConfigs : get(c, Endpoint, config)
    \/ \E c \in Solo, data \in Payloads : post(c, Endpoint, data, NoConfig)
    \/ \E c \in Solo, file \in Files : upload(c, Endpoint, file, NoConfig)
    \/ \E c \in Solo : download(c, Endpoint, NoConfig)
    \/ \E c \in Solo : \E raw \in TransportResponses(calls[c].url) :
          FetchResolve(c, raw)
    \/ \E c \in Solo : FetchReject(c)
    \/ \E c \in Solo : \E k \in calls[c].timers : TimerFire(c, k)
    \/ \E c \in Solo : FetchAbort(c)
    \/ \E c \in Solo : JsonSettle(c)
    \/ \E c \in Solo : BlobSettle(c)

TimersRun == WF_vars(\E c \in Solo : \E k \in calls[c].timers : TimerFire(c, k))

AbortedFetchRejects == WF_vars(\E c \in Solo : FetchAbort(c))

BodiesSettle ==
    /\ WF_vars(\E c \in Solo : JsonSettle(c))
    /\ WF_vars(\E c \in Solo : BlobSettle(c))

SpecLive ==
    Init /\ [][NextLive]_vars /\ TimersRun /\ AbortedFetchRejects /\ BodiesSettle

\* ------------------------------------------- configuring during a call
\* One request call, and the configuration operations at any moment of it:
\* before the invocation, while an attempt waits for the transport, between
\* the arrival of a response and the end of its decoding.
NextConfig ==
    \/ \E token \in Tokens : setAuthToken(token)
    \/ \E id \in RequestInterceptorIds : addRequestInterceptor(id)
    \/ \E id \in ResponseInterceptorIds : addResponseInterceptor(id)
    \/ \E c \in Solo, config \in CallConfigs : get(c, Endpoint, config)
    \/ \E c \in Solo, data \in Payloads, config \in CallConfigs :
          post(c, Endpoint, data, config)
    \/ \E c \in Solo : \E raw \in TransportResponses(calls[c].url) : FetchResolve(c, raw)
    \/ \E c \in Solo : FetchReject(c)
    \/ \E c \in Solo : \E k \in calls[c].timers : TimerFire(c, k)
    \/ \E c \in Solo : FetchAbort(c)
    \/ \E c \in Solo : JsonSettle(c)

SpecConfig == Init /\ [][NextConfig]_vars

\* ---------------------------------------------------------------- C11
\* what a run does apart from what it writes to the console: the attempts
\* dispatched, the descriptor, the errors thrown, the timers, the result
Silenced(frame) == [frame EXCEPT !.client = 1, !.console = <<>>]

\* C11: logging is observational only. Of two runs of the same call against
\* the same transport outcomes, one on a client with logging turned on
\* (request logging, response logging or both, at any moment) and one on a
\* client that never logs, the attempts dispatched, the descriptors
\* dispatched, the position in the call and the value returned or error
\* raised are the same at every moment.
C11_LoggingObservationalOnly == Silenced(calls[1]) = Silenced(calls[2])

\* both runs failed an attempt, retried and ended, and the logged run wrote a
\* request line and a response line that the silent run did not
C11_Witness ==
    /\ calls[1].pc = "done" /\ calls[1].verb = "request"
    /\ calls[1].failures >= 1 /\ calls[1].dispatches >= 2
    /\ \E i \in DOMAIN calls[1].console : calls[1].console[i].kind = "request"
    /\ \E i \in DOMAIN calls[1].console : calls[1].console[i].kind = "response"
    /\ \A i \in DOMAIN calls[2].console :
          calls[2].console[i].kind \notin {"request", "response"}

\* ---------------------------------------------------------------- C12
Lines(frame, kind) ==
    Cardinality({i \in DOMAIN frame.console : frame.console[i].kind = kind})

LoggingOff(frame) ==
    ~loggingEnabled[frame.client] /\ ~responseLoggingEnabled[frame.client]

\* C12 as stated: every kind of diagnostic line (request start, response
\* receipt, retry warning, final failure) is written only under its logging
\* flag, so a call on a client with both flags off writes no line at all.
C12_NoLineWithFlagsOff ==
    \A c \in CallIds : LoggingOff(calls[c]) => calls[c].console = <<>>

\* C12, amended: the request-start line is written only under request
\* logging and the response-receipt line only under response logging; the
\* retry warning and the final-failure line are written whatever the flags,
\* one line for every failed attempt of the call.
C12_OnlyLogLinesAreFlagged ==
    \A c \in CallIds :
        LET f == calls[c]
        IN /\ Lines(f, "request") > 0 => loggingEnabled[f.client]
           /\ Lines(f, "response") > 0 => responseLoggingEnabled[f.client]
           /\ Lines(f, "retry") + Lines(f, "failure") = f.failures
           /\ Lines(f, "failure") = (IF f.result.type = "error" THEN 1 ELSE 0)

\* a request call on a client with both flags off has ended after a retry:
\* it wrote a retry warning and a final-failure line
C12_Witness ==
    \E c \in CallIds :
        /\ LoggingOff(calls[c])
        /\ calls[c].pc = "done" /\ calls[c].verb = "request"
        /\ Lines(calls[c], "retry") >= 1 /\ Lines(calls[c], "failure") = 1

\* ---------------------------------------------------------------- C13
\* what a call holds of its own: its attempt counter counts its own
\* dispatches, its descriptor is the one built from its own arguments and
\* carries the token of its own running attempt, its only timer is the one
\* of its running attempt, and only its own timers have aborted its attempts
KeepsItsOwn(f) ==
    /\ f.pc \in {"fetching", "decoding"} =>
          /\ f.dispatches = f.attempt + 1
          /\ f.failures = f.attempt
          /\ f.options = [applyRequestInterceptors(f.initial)
                             EXCEPT !.signal = f.attempt]
          /\ f.initial.credentials = (IF Truthy(f.config.credentials)
                                      THEN f.config.credentials
                                      ELSE "same-origin")
          /\ \A h \in DOMAIN f.config.headers \ {"Authorization"} :
                GetHeader(f.initial.headers, h) = f.config.headers[h]
    /\ f.timers \subseteq {f.attempt}
    /\ f.pc = "fetching" => (f.attempt \in f.timers) # (f.attempt \in f.aborted)
    /\ f.pc # "fetching" => f.timers = {}
    /\ ~f.staleFire
    /\ f.verb = "request" =>
          /\ f.dispatches <= retries
          /\ f.result.type = "error" => f.failures = retries
          /\ f.result.type = "response" => f.dispatches = f.failures + 1
    /\ f.verb \in {"upload", "download"} => f.dispatches = 1

\* a step of one call leaves the other call as it is, and an attempt is
\* aborted only by the timer of that attempt
StepsOfOneCall ==
    /\ \A c, d \in CallIds :
          c # d => (calls'[c] = calls[c] \/ calls'[d] = calls[d])
    /\ \A c \in CallIds :
          calls'[c].aborted # calls[c].aborted =>
              /\ calls'[c].aborted = calls[c].aborted \cup calls[c].timers
              /\ calls'[c].timers = {}

\* C13: concurrent calls on the same client instance are independent. Under
\* every interleaving of two calls in flight each call keeps its own attempt
\* counter, descriptor, cancellation token and timer, so its number of
\* attempts and its outcome follow the rules of a call running alone; every
\* step changes one call only, and a timer aborts only its own attempt.
C13_ConcurrentCallsIndependent ==
    /\ [](\A c \in CallIds : KeepsItsOwn(calls[c]))
    /\ [][StepsOfOneCall]_vars

\* both calls are waiting for the transport at once, on different attempts:
\* the timer of call 1's first attempt has aborted it, call 2 is untouched
C13_Witness ==
    /\ calls[1].pc = "fetching" /\ calls[2].pc = "fetching"
    /\ calls[1].attempt = 1 /\ calls[2].attempt = 0
    /\ calls[1].aborted = {0}
    /\ calls[2].aborted = {} /\ calls[2].timers = {0}

\* ---------------------------------------------------------------- C14
\* the value the three-level merge gives header h: the token's value where
\* there is a (non-empty) token, else the caller's, else the default
MergedHeader(h, token, callerHeaders) ==
    IF h = "Authorization" /\ Truthy(token) THEN "Bearer " \o token
    ELSE IF h \in DOMAIN callerHeaders THEN callerHeaders[h]
    ELSE IF h = "Content-Type" THEN "application/json"
    ELSE Undefined

\* C14: the descriptor a request call builds before the interceptors run has
\* the headers of the three-level merge, token over caller over default:
\* Content-Type is application/json unless the caller's headers give another
\* value, every other header of the caller is kept, Authorization is
\* Bearer <token> when a token is set even if the caller's headers give
\* another Authorization, and there is no header besides these.
C14_InitialHeadersMerged ==
    \A c \in RequestCalls :
        LET f == calls[c]
            names == {"Content-Type", "Authorization"} \cup DOMAIN f.config.headers
        IN f.pc \in {"fetching", "decoding"} =>
              /\ DOMAIN f.initial.headers \subseteq names
              /\ \A h \in names :
                    GetHeader(f.initial.headers, h)
                        = MergedHeader(h, f.token, f.config.headers)

\* a token is set and the caller's headers give their own Content-Type,
\* Authorization and X-Id: the token's Authorization and the caller's
\* Content-Type and X-Id are in the descriptor
C14_Witness ==
    \E c \in RequestCalls :
        /\ calls[c].pc = "fetching"
        /\ calls[c].token = "tok"
        /\ GetHeader(calls[c].config.headers, "Authorization") = "Basic u"
        /\ GetHeader(calls[c].config.headers, "Content-Type") = "text/plain"
        /\ GetHeader(calls[c].initial.headers, "Authorization") = "Bearer tok"
        /\ GetHeader(calls[c].initial.headers, "Content-Type") = "text/plain"
        /\ GetHeader(calls[c].initial.headers, "X-Id") = "7"

\* ---------------------------------------------------------------- C15
\* C15: once an attempt of a request call has got a response that is
\* classified as a success, the call ends on that attempt: while and after
\* the body is decoded no further attempt is dispatched, and when the body is
\* not JSON the decode failure of that attempt is what the call raises.
C15_SuccessEndsTheCall ==
    \A c \in RequestCalls :
        LET f == calls[c]
        IN /\ f.pc = "decoding" => f.dispatches = f.attempt + 1
           /\ f.thrown.kind = "SyntaxError" =>
                 /\ f.pc = "done"
                 /\ f.dispatches = f.thrown.attempt + 1
                 /\ f.result.type = "error"
                 /\ f.result.error = f.thrown

\* ---------------------------------------------------------------- C16
\* the step of call c is the arrival of a response: a response is held that
\* was not held before, or an HttpError was thrown
ResponseArrives(c) ==
    /\ calls[c].pc = "fetching"
    /\ \/ calls'[c].raw # NoResponse
       \/ /\ calls'[c].failures = calls[c].failures + 1
          /\ calls'[c].thrown.kind = "HttpError"

\* the lines call c writes in the step
Written(c) ==
    SubSeq(calls'[c].console, Len(calls[c].console) + 1, Len(calls'[c].console))

\* the step treats the response `raw`: the chain registered now runs on it
\* whatever its status, its output decides between decoding and throwing,
\* and the response line, written under response logging, shows raw's status
TreatsResponse(c, raw) ==
    LET f == calls[c]
        g == calls'[c]
        out == ComposeResponse(responseInterceptors, raw)
    IN /\ IF responseLoggingEnabled[f.client]
          THEN /\ Written(c) # <<>>
               /\ Written(c)[1] = ConsoleLine("log", "response", raw.status)
          ELSE \A i \in DOMAIN Written(c) : Written(c)[i].kind # "response"
       /\ IF Ok(out)
          THEN /\ g.pc = "decoding"
               /\ g.raw = raw /\ g.response = out
               /\ g.failures = f.failures /\ g.dispatches = f.dispatches
          ELSE /\ g.thrown = handleError(out, f.attempt)
               /\ g.failures = f.failures + 1
               /\ g.pc \in {"fetching", "done"}

\* C16: on every attempt that gets a response the response-interceptor chain
\* runs before the classification and whatever the raw status is, and the
\* classification (hence retry or return) is made on the chain's output, not
\* on the raw response; only the response line of the log shows the raw
\* response.
C16_ClassifiedOnChainOutput ==
    [][\A c \in CallIds :
          ResponseArrives(c) =>
              \E raw \in TransportResponses(calls[c].url) : TreatsResponse(c, raw)]_vars

\* a raw 404 that the chain turned into a 200 is being decoded, and the
\* response line of the log shows the 404
C16_Witness ==
    \E c \in CallIds :
        LET f == calls[c]
        IN /\ f.pc = "decoding"
           /\ f.raw.status = 404 /\ f.response.status = 200
           /\ f.console # <<>>
           /\ f.console[Len(f.console)] = ConsoleLine("log", "response", 404)

\* ---------------------------------------------------------------- C17
\* C17: within one request call the attempts run one after the other. At
\* every moment at most one attempt is neither failed nor returned from, and
\* while attempt K+1 waits for the transport every earlier attempt has
\* failed, the last error thrown is attempt K's, and no timer but attempt
\* K+1's own is set.
C17_AttemptsSequential ==
    \A c \in RequestCalls :
        LET f == calls[c]
        IN /\ f.dispatches - f.failures \in {0, 1}
           /\ f.pc \in {"fetching", "decoding"} =>
                 /\ f.dispatches = f.attempt + 1
                 /\ f.failures = f.attempt
                 /\ f.timers \subseteq {f.attempt}
                 /\ f.attempt >= 1 => f.thrown.attempt = f.attempt - 1

\* attempt 1 waits for the transport after attempt 0 failed without its timer
\* having fired: the timer was cleared, only attempt 1's is set
C17_Witness ==
    \E c \in RequestCalls :
        /\ calls[c].pc = "fetching"
        /\ calls[c].attempt = 1
        /\ calls[c].thrown.attempt = 0
        /\ calls[c].aborted = {}
        /\ calls[c].timers = {1}

\* ---------------------------------------------------------------- C18
\* C18 as stated: in every phase in which a call is suspended, waiting for
\* the transport or for the body to be decoded or read, the timer of its
\* attempt is still set (or has fired and aborted the attempt), so that
\* timers alone bring every call to its end.
C18_SuspendedUnderTimer ==
    \A c \in CallIds :
        LET f == calls[c]
        IN f.pc \in {"fetching", "decoding"} =>
              (f.attempt \in f.timers \/ f.attempt \in f.aborted)

\* C18, amended: the timer of an attempt covers the wait for the transport
\* only, it is cleared before the body is decoded or read. Every call of
\* request, upload and download started comes to its end when, besides timers
\* running and the transport rejecting an aborted fetch, the reading of every
\* response body comes to an end.
C18_FinishesIfBodiesSettle ==
    /\ [](\A c \in Solo :
             /\ calls[c].pc = "fetching" =>
                   (calls[c].attempt \in calls[c].timers
                       \/ calls[c].attempt \in calls[c].aborted)
             /\ calls[c].pc = "decoding" => calls[c].timers = {})
    /\ \A c \in Solo : (calls[c].pc # "idle") ~> (calls[c].pc = "done")

\* a call whose every attempt was ended by its timer has come to its end
C18_Witness ==
    \E c \in Solo :
        /\ calls[c].pc = "done"
        /\ calls[c].dispatches >= 2
        /\ calls[c].aborted = 0..(calls[c].dispatches - 1)
        /\ calls[c].result.error.kind = "AbortError"

\* ---------------------------------------------------------------- C19
\* the step is the invocation of request as call c
Invoked(c) ==
    calls[c].pc = "idle" /\ calls'[c].pc # "idle" /\ calls'[c].verb = "request"

\* the step dispatches a later attempt of request call c
Redispatched(c) ==
    /\ calls[c].verb = "request"
    /\ calls[c].dispatches >= 1
    /\ calls'[c].dispatches = calls[c].dispatches + 1

\* C19: the request-interceptor chain and the request log run once per
\* request call, at its invocation and before the first attempt, however
\* many attempts follow: the first attempt's descriptor is the chain applied
\* once to the initial descriptor, every later attempt dispatches the
\* descriptor of the attempt before with only the signal replaced, and the
\* request line is written at the invocation (under request logging) and
\* never again.
C19_BuiltAndLoggedOnce ==
    [][\A c \in CallIds :
          LET f == calls[c]
              g == calls'[c]
          IN /\ (Invoked(c) /\ g.pc = "fetching") =>
                    g.options = [ComposeRequest(requestInterceptors, g.initial)
                                    EXCEPT !.signal = 0]
             /\ Redispatched(c) =>
                    /\ g.attempt = f.attempt + 1
                    /\ g.options = [f.options EXCEPT !.signal = g.attempt]
             /\ g.verb = "request" =>
                    Lines(g, "request")
                       = Lines(f, "request")
                            + (IF (Invoked(c) /\ loggingEnabled[f.client]) THEN 1 ELSE 0)]_vars

\* the third attempt of a logged request call whose descriptor went through
\* an interceptor: one request line, one pass of the interceptor
C19_Witness ==
    \E c \in CallIds :
        LET f == calls[c]
        IN /\ f.verb = "request" /\ f.pc = "fetching"
           /\ f.attempt >= 1
           /\ f.chain = <<"trace">>
           /\ GetHeader(f.options.headers, "X-Trace") = "t"
           /\ Lines(f, "request") = 1

\* ---------------------------------------------------------------- C20
\* the descriptor of a call in flight is the one built at its invocation:
\* from the token and the request interceptors of that moment
DescriptorOfInvocation(f) ==
    /\ f.options = [ComposeRequest(f.chain, f.initial) EXCEPT !.signal = f.attempt]
    /\ GetHeader(f.initial.headers, "Authorization")
          = (IF Truthy(f.token) THEN "Bearer " \o f.token
             ELSE GetHeader(f.config.headers, "Authorization"))

\* C20 as stated: the behaviour of a call is fixed by the configuration at
\* the moment of its invocation. Whatever configuration operation runs while
\* the call is in flight, its descriptor, and the transformation and
\* classification of the response it gets, are those of the token and the
\* interceptor chains registered at the invocation.
C20_FixedAtInvocation ==
    \A c \in CallIds :
        LET f == calls[c]
        IN f.pc \in {"fetching", "decoding"} =>
              /\ DescriptorOfInvocation(f)
              /\ f.raw # NoResponse =>
                    /\ f.response = ComposeResponse(f.rchain0, f.raw)
                    /\ Ok(ComposeResponse(f.rchain0, f.raw))

\* the step changes the configuration of the client
Configures ==
    \/ authToken' # authToken
    \/ requestInterceptors' # requestInterceptors
    \/ responseInterceptors' # responseInterceptors

\* C20, amended: setAuthToken and addRequestInterceptor run while a call is
\* in flight change nothing of the call: every attempt dispatches the
\* descriptor built at the invocation. The response interceptors are read
\* when a response arrives: a response is transformed and classified by the
\* chain registered at that moment, which includes the interceptors added
\* since the invocation.
C20_ResponseChainReadAtArrival ==
    /\ [](\A c \in CallIds :
             calls[c].pc \in {"fetching", "decoding"} =>
                 DescriptorOfInvocation(calls[c]))
    /\ [][/\ Configures => calls' = calls
          /\ \A c \in CallIds :
                ResponseArrives(c) =>
                    \E raw \in TransportResponses(calls[c].url) :
                        LET out == ComposeResponse(responseInterceptors, raw)
                        IN IF Ok(out)
                           THEN calls'[c].pc = "decoding" /\ calls'[c].response = out
                           ELSE calls'[c].thrown = handleError(out, calls[c].attempt)]_vars

\* the second attempt of a call carries the descriptor of the invocation
\* although the token and the request interceptors have changed since, and
\* its response went through a response interceptor added after the
\* invocation, which turned a 404 into a success
C20_Witness ==
    \E c \in CallIds :
        LET f == calls[c]
        IN /\ f.pc = "decoding" /\ f.attempt >= 1
           /\ authToken # f.token
           /\ requestInterceptors # f.chain
           /\ f.rchain0 = <<>> /\ f.rchain = <<"mask">>
           /\ f.raw.status = 404 /\ f.response.status = 200

====
